---- MODULE Spec2Model ----
(***************************************************************************)
(* Model of src/types.rs of tiberius: the TDS type tag tables, the type    *)
(* descriptor decoder (TypeInfo::parse), the column value decoder          *)
(* (ColumnData::parse) and the resumable column value encoder              *)
(* (ColumnData::serialize).                                                *)
(*                                                                         *)
(* A writer drives serialize on one value, threading the returned offset   *)
(* back as last_pos, against a sink that offers a bounded number of bytes  *)
(* per call.  A reader drives TypeInfo::parse and then ColumnData::parse   *)
(* over a transport whose bytes arrive one at a time.  When an encode has  *)
(* completed, the sink's bytes can be handed to the reader (Loopback).     *)
(***************************************************************************)
EXTENDS Integers, Sequences, FiniteSets, TLC

VARIABLES
    mode,       \* "encode": a value is being serialized; "decode": a wire stream is being parsed
    value,      \* the ColumnData handed to serialize
    sink,       \* the bytes the target holds
    pos,        \* the caller's resumption offset (last_pos of the next call)
    ret,        \* what the last serialize call returned
    sinkCall,   \* the sink's length when the last serialize call started
    posCall,    \* last_pos of the last serialize call
    capCall,    \* the capacity the sink offered to the last serialize call
    stream,     \* the bytes the peer sends, in order
    avail,      \* how many of them have reached the transport
    rpos,       \* how many of them the transport has handed out (consumed)
    rphase,     \* the reader's position
    meta,       \* the TypeInfo the reader holds for the column
    tiRes,      \* what the last TypeInfo::parse call returned
    cdRes,      \* what the last ColumnData::parse call returned
    rposTi,     \* rpos when the last TypeInfo::parse call started
    rposCd,     \* rpos when the last ColumnData::parse call started
    availTi,    \* avail when the last TypeInfo::parse call started
    availCd,    \* avail when the last ColumnData::parse call started
    conv        \* what the last i32::from_column_data(value) call returned

vars == <<mode, value, sink, pos, ret, sinkCall, posCall, capCall,
          stream, avail, rpos, rphase, meta, tiRes, cdRes, rposTi, rposCd,
          availTi, availCd, conv>>

encVars == <<value, sink, pos, ret, sinkCall, posCall, capCall>>
decVars == <<stream, avail, rpos, rphase, meta, tiRes, cdRes, rposTi, rposCd,
             availTi, availCd>>

(***************************************************************************)
(* Bounds of the model.                                                    *)
(***************************************************************************)
\* longest string handed to serialize, in characters
MaxStrLen == 2
\* largest bounded per-call sink capacity (an unlimited call is always offered too)
MaxCap == 3

Min(a, b) == IF a < b THEN a ELSE b
Max(a, b) == IF a > b THEN a ELSE b

Byte == 0..255

(***************************************************************************)
(* Type tag tables.                                                        *)
(***************************************************************************)
FixedLenType ==
    [Null |-> 31, Int1 |-> 48, Bit |-> 50, Int2 |-> 52, Int4 |-> 56,
     Datetime4 |-> 58, Float4 |-> 59, Money |-> 60, Datetime |-> 61,
     Float8 |-> 62, Money4 |-> 122, Int8 |-> 127]

\* (mutant) the variable-length Money carries the fixed-length Money's code
VarLenType_MoneyClash ==
    [Guid |-> 36, Intn |-> 38, Bitn |-> 104, Decimaln |-> 106,
     Numericn |-> 108, Floatn |-> 109, Money |-> 60, Datetimen |-> 111,
     Daten |-> 40, Timen |-> 41, Datetime2 |-> 42, DatetimeOffsetn |-> 43,
     BigVarBin |-> 165, BigVarChar |-> 167, BigBinary |-> 173, BigChar |-> 175,
     NVarchar |-> 231, NChar |-> 239, Xml |-> 241, Udt |-> 240,
     Text |-> 35, Image |-> 34, NText |-> 99, SSVariant |-> 98]

VarLenType ==
    [Guid |-> 36, Intn |-> 38, Bitn |-> 104, Decimaln |-> 106,
     Numericn |-> 108, Floatn |-> 109, Money |-> 110, Datetimen |-> 111,
     Daten |-> 40, Timen |-> 41, Datetime2 |-> 42, DatetimeOffsetn |-> 43,
     BigVarBin |-> 165, BigVarChar |-> 167, BigBinary |-> 173, BigChar |-> 175,
     NVarchar |-> 231, NChar |-> 239, Xml |-> 241, Udt |-> 240,
     Text |-> 35, Image |-> 34, NText |-> 99, SSVariant |-> 98]

NoTag == [some |-> FALSE, ty |-> "-"]

\* uint_to_enum!: the tag whose code is b, if any
from_u8(table, b) ==
    IF \E n \in DOMAIN table : table[n] = b
    THEN [some |-> TRUE, ty |-> CHOOSE n \in DOMAIN table : table[n] = b]
    ELSE NoTag

FixedLenType_from_u8(b) == from_u8(FixedLenType, b)
VarLenType_from_u8(b) == from_u8(VarLenType, b)

(***************************************************************************)
(* Byte conversions.                                                       *)
(***************************************************************************)
\* LittleEndian::write_i32: the 4 bytes of a 32-bit two's complement value
\* (w is the value without its sign bit; the sign bit is bit 7 of the last byte)
LE32(v) ==
    LET w == IF v < 0 THEN (v + 2147483647) + 1 ELSE v
    IN  <<w % 256, (w \div 256) % 256, (w \div 65536) % 256,
          (w \div 16777216) + (IF v < 0 THEN 128 ELSE 0)>>

\* LittleEndian u16: the 2 bytes of a 16-bit value
LE16(v) == <<v % 256, (v \div 256) % 256>>

\* LittleEndian::read_i32: the two's complement value of 4 bytes
I32FromLE(b) ==
    LET w == b[1] + 256 * b[2] + 65536 * b[3] + 16777216 * (b[4] % 128)
    IN  IF b[4] >= 128 THEN (w - 2147483647) - 1 ELSE w

\* u16 value of 2 bytes, little-endian
U16FromLE(b) == b[1] + 256 * b[2]

(***************************************************************************)
(* Strings: a str is modelled as its sequence of Unicode scalar values.    *)
(***************************************************************************)
\* length of one scalar value's UTF-8 encoding
Utf8Len(c) == IF c < 128 THEN 1 ELSE IF c < 2048 THEN 2 ELSE IF c < 65536 THEN 3 ELSE 4

RECURSIVE StrLen(_)
\* str::len(): the length of the string's UTF-8 encoding, in bytes
\* (summed by halves, so that a long string is summed in few nested steps)
StrLen(s) ==
    IF Len(s) = 0 THEN 0
    ELSE IF Len(s) = 1 THEN Utf8Len(s[1])
    ELSE LET h == Len(s) \div 2
         IN  StrLen(SubSeq(s, 1, h)) + StrLen(SubSeq(s, h + 1, Len(s)))

\* one scalar value's UTF-16 code units, each as 2 little-endian bytes
Utf16Char(c) ==
    IF c < 65536 THEN LE16(c)
    ELSE LE16(55296 + ((c - 65536) \div 1024)) \o LE16(56320 + ((c - 65536) % 1024))

RECURSIVE Utf16LE(_)
\* the encoded character payload of a string
Utf16LE(s) == IF s = <<>> THEN <<>> ELSE Utf16Char(Head(s)) \o Utf16LE(Tail(s))

(***************************************************************************)
(* The sink and the fragment writers of the transport.  A call is offered  *)
(* cap bytes of room; a writer's state is the sink and the room left.      *)
(***************************************************************************)
\* write_bytes_fragment: as much of bytes[last_pos..] as there is room for;
\* left = bytes still pending, written = bytes written by this call
write_bytes_fragment(snk, cap, bytes, last_pos) ==
    LET n == Min(cap, Len(bytes) - last_pos)
    IN  [sink |-> snk \o SubSeq(bytes, last_pos + 1, last_pos + n),
         cap |-> cap - n,
         left |-> Len(bytes) - last_pos - n,
         written |-> n]

\* write_u16_fragment::<LittleEndian>
write_u16_fragment(snk, cap, val, last_pos) ==
    write_bytes_fragment(snk, cap, LE16(val), last_pos)

\* write_varchar_fragment: the encoded characters of the string
write_varchar_fragment(snk, cap, s, last_pos) ==
    write_bytes_fragment(snk, cap, Utf16LE(s), last_pos)

\* Cursor<Vec<u8>>::write_u8: the vector grows, whatever room the call was offered
write_u8(snk, cap, b) ==
    [sink |-> Append(snk, b), cap |-> Max(cap - 1, 0), left |-> 0, written |-> 1]

(***************************************************************************)
(* ColumnData and the results of serialize.                                *)
(***************************************************************************)
I32(v) == [kind |-> "I32", val |-> v, str |-> <<>>]
String(s) == [kind |-> "String", val |-> 0, str |-> s]
BString(s) == [kind |-> "BString", val |-> 0, str |-> s]

RetStart == [kind |-> "Start", n |-> 0]
RetSome(n) == [kind |-> "Some", n |-> n]
RetNone == [kind |-> "None", n |-> 0]
RetPanic(what) == [kind |-> what, n |-> 0]

\* u16::max_value()
U16Max == 65535

\* (mutant) the value written big-endian
I32Bytes_BigEndian(val) ==
    <<VarLenType.Intn, 4, 4>>
    \o <<LE32(val)[4], LE32(val)[3], LE32(val)[2], LE32(val)[1]>>

\* the I32 arm's byte image: tag, max length, actual length, value
I32Bytes(val) == <<VarLenType.Intn, 4, 4>> \o LE32(val)

\* (mutant) the call's own byte count is returned, not the cumulative offset
SerializeI32_Delta(val, snk, last_pos, cap) ==
    LET w == write_bytes_fragment(snk, cap, I32Bytes(val), last_pos)
    IN  IF w.left > 0
        THEN [sink |-> w.sink, ret |-> RetSome(w.written)]
        ELSE [sink |-> w.sink, ret |-> RetNone]

\* ColumnData::serialize, I32 arm
SerializeI32(val, snk, last_pos, cap) ==
    LET w == write_bytes_fragment(snk, cap, I32Bytes(val), last_pos)
    IN  IF w.left > 0
        THEN [sink |-> w.sink, ret |-> RetSome(last_pos + w.written)]
        ELSE [sink |-> w.sink, ret |-> RetNone]

\* the type length field: 2*str_.len()
TypeLength(s) == 2 * StrLen(s)

\* the body length field: 2*str_.len() as u16, i.e. 2 * (len as u16), in u16
BodyLength(s) == (2 * (StrLen(s) % 65536)) % 65536

\* the hardcoded collation
Collation == <<0, 0, 0, 0, 0>>

\* (mutant) the payload stage reports its offset from the stage's start
SerializePayload_StageRelative(s, w, state) ==
    IF state >= 10
    THEN LET w4 == write_varchar_fragment(w.sink, w.cap, s, state - 10)
         IN  IF w4.left > 0
             THEN [sink |-> w4.sink, ret |-> RetSome(10 + w4.written)]
             ELSE [sink |-> w4.sink, ret |-> RetNone]
    ELSE [sink |-> w.sink, ret |-> RetNone]

\* ColumnData::serialize, String arm, from the encoded string stage on
SerializePayload(s, w, state) ==
    IF state >= 10
    THEN LET w4 == write_varchar_fragment(w.sink, w.cap, s, state - 10)
         IN  IF w4.left > 0
             THEN [sink |-> w4.sink, ret |-> RetSome(state + w4.written)]
             ELSE [sink |-> w4.sink, ret |-> RetNone]
    ELSE [sink |-> w.sink, ret |-> RetNone]

\* (mutant) the body length stage tests the collation stage's threshold
SerializeBodyLength_WrongThreshold(s, w, state) ==
    IF state < 8
    THEN LET w3 == write_u16_fragment(w.sink, w.cap, BodyLength(s), state - 8)
         IN  IF w3.left > 0
             THEN [sink |-> w3.sink, ret |-> RetSome(state + w3.written)]
             ELSE SerializePayload(s, w3, 10)
    ELSE SerializePayload(s, w, state)

\* ... from the body length stage on
SerializeBodyLength(s, w, state) ==
    IF state < 10
    THEN LET w3 == write_u16_fragment(w.sink, w.cap, BodyLength(s), state - 8)
         IN  IF w3.left > 0
             THEN [sink |-> w3.sink, ret |-> RetSome(state + w3.written)]
             ELSE SerializePayload(s, w3, 10)
    ELSE SerializePayload(s, w, state)

\* (mutant) a resumed collation stage starts the field over
SerializeCollation_Restart(s, w, state) ==
    IF state < 8
    THEN LET w2 == write_bytes_fragment(w.sink, w.cap, Collation, 0)
         IN  IF w2.left > 0
             THEN [sink |-> w2.sink, ret |-> RetSome(state + w2.written)]
             ELSE SerializeBodyLength(s, w2, 8)
    ELSE SerializeBodyLength(s, w, state)

\* ... from the collation stage on
SerializeCollation(s, w, state) ==
    IF state < 8
    THEN LET w2 == write_bytes_fragment(w.sink, w.cap, Collation, state - 3)
         IN  IF w2.left > 0
             THEN [sink |-> w2.sink, ret |-> RetSome(state + w2.written)]
             ELSE SerializeBodyLength(s, w2, 8)
    ELSE SerializeBodyLength(s, w, state)

\* ... from the type length stage on
SerializeTypeLength(s, w, state) ==
    IF state < 3
    THEN IF ~(TypeLength(s) < U16Max)
         THEN [sink |-> w.sink, ret |-> RetPanic("AssertFailed")]
         ELSE LET w1 == write_u16_fragment(w.sink, w.cap, TypeLength(s) % 65536, state - 1)
              IN  IF w1.left > 0
                  THEN [sink |-> w1.sink, ret |-> RetSome(state + w1.written)]
                  ELSE SerializeCollation(s, w1, 3)
    ELSE SerializeCollation(s, w, state)

\* ColumnData::serialize, String arm
SerializeString(s, snk, last_pos, cap) ==
    LET w0 == IF last_pos = 0
              THEN write_u8(snk, cap, VarLenType.NVarchar)
              ELSE [sink |-> snk, cap |-> cap, left |-> 0, written |-> 0]
    IN  SerializeTypeLength(s, w0, Max(last_pos, 1))

\* ColumnData::serialize
serialize(v, snk, last_pos, cap) ==
    CASE v.kind = "I32" -> SerializeI32(v.val, snk, last_pos, cap)
      [] v.kind = "String" -> SerializeString(v.str, snk, last_pos, cap)
      [] OTHER -> [sink |-> snk, ret |-> RetPanic("Unimplemented")]

(***************************************************************************)
(* The transport's reads.  Each read either hands out its bytes or signals *)
(* not-ready without consuming anything.                                   *)
(***************************************************************************)
\* read_u8
read_u8(strm, av, rp) ==
    IF av - rp >= 1
    THEN [ok |-> TRUE, val |-> strm[rp + 1], rpos |-> rp + 1]
    ELSE [ok |-> FALSE, val |-> 0, rpos |-> rp]

\* read_i32::<LittleEndian>
read_i32(strm, av, rp) ==
    IF av - rp >= 4
    THEN [ok |-> TRUE, val |-> I32FromLE(SubSeq(strm, rp + 1, rp + 4)), rpos |-> rp + 4]
    ELSE [ok |-> FALSE, val |-> 0, rpos |-> rp]

(***************************************************************************)
(* TypeInfo and the results of the two parse calls.                        *)
(***************************************************************************)
NoMeta == [kind |-> "NoMeta", ty |-> "-", len |-> 0]
FixedLen(ty) == [kind |-> "FixedLen", ty |-> ty, len |-> 0]
VarLenSized(ty, len) == [kind |-> "VarLenSized", ty |-> ty, len |-> len]

NoValue == [kind |-> "NoValue", val |-> 0, str |-> <<>>]

\* outcomes: "Ready" (a value), "NotReady", "Protocol" (an Err returned),
\* "Unimplemented", "Unsupported" and "AssertFailed" (panics), "NotCalled"
TiResult(res, ti, rp) == [res |-> res, ti |-> ti, rpos |-> rp]
CdResult(res, v, rp) == [res |-> res, val |-> v, rpos |-> rp]

\* (mutant) an Intn length other than 1, 2, 4, 8 is rejected
TypeInfoParse_LenChecked(strm, av, rp) ==
    LET r1 == read_u8(strm, av, rp)
        fixed == FixedLenType_from_u8(r1.val)
        var == VarLenType_from_u8(r1.val)
    IN  IF ~r1.ok THEN TiResult("NotReady", NoMeta, r1.rpos)
        ELSE IF fixed.some THEN TiResult("Ready", FixedLen(fixed.ty), r1.rpos)
        ELSE IF var.some
             THEN IF var.ty = "Intn"
                  THEN LET r2 == read_u8(strm, av, r1.rpos)
                       IN  IF ~r2.ok THEN TiResult("NotReady", NoMeta, r2.rpos)
                           ELSE IF r2.val \notin {1, 2, 4, 8}
                                THEN TiResult("Protocol", NoMeta, r2.rpos)
                                ELSE TiResult("Ready", VarLenSized(var.ty, r2.val), r2.rpos)
                  ELSE TiResult("Unimplemented", NoMeta, r1.rpos)
             ELSE TiResult("Protocol", NoMeta, r1.rpos)

\* (mutant) every variable-length tag is followed by a one-byte length
TypeInfoParse_AnyVarLen(strm, av, rp) ==
    LET r1 == read_u8(strm, av, rp)
        fixed == FixedLenType_from_u8(r1.val)
        var == VarLenType_from_u8(r1.val)
    IN  IF ~r1.ok THEN TiResult("NotReady", NoMeta, r1.rpos)
        ELSE IF fixed.some THEN TiResult("Ready", FixedLen(fixed.ty), r1.rpos)
        ELSE IF var.some
             THEN LET r2 == read_u8(strm, av, r1.rpos)
                  IN  IF ~r2.ok THEN TiResult("NotReady", NoMeta, r2.rpos)
                      ELSE TiResult("Ready", VarLenSized(var.ty, r2.val), r2.rpos)
             ELSE TiResult("Protocol", NoMeta, r1.rpos)

\* (mutant) a byte of neither table falls into the unimplemented arm
TypeInfoParse_UnknownPanics(strm, av, rp) ==
    LET r1 == read_u8(strm, av, rp)
        fixed == FixedLenType_from_u8(r1.val)
        var == VarLenType_from_u8(r1.val)
    IN  IF ~r1.ok THEN TiResult("NotReady", NoMeta, r1.rpos)
        ELSE IF fixed.some THEN TiResult("Ready", FixedLen(fixed.ty), r1.rpos)
        ELSE IF var.some /\ var.ty = "Intn"
             THEN LET r2 == read_u8(strm, av, r1.rpos)
                  IN  IF ~r2.ok THEN TiResult("NotReady", NoMeta, r2.rpos)
                      ELSE TiResult("Ready", VarLenSized(var.ty, r2.val), r2.rpos)
             ELSE TiResult("Unimplemented", NoMeta, r1.rpos)

\* TypeInfo::parse
TypeInfoParse(strm, av, rp) ==
    LET r1 == read_u8(strm, av, rp)
        fixed == FixedLenType_from_u8(r1.val)
        var == VarLenType_from_u8(r1.val)
    IN  IF ~r1.ok THEN TiResult("NotReady", NoMeta, r1.rpos)
        ELSE IF fixed.some THEN TiResult("Ready", FixedLen(fixed.ty), r1.rpos)
        ELSE IF var.some
             THEN IF var.ty = "Intn"
                  THEN LET r2 == read_u8(strm, av, r1.rpos)
                       IN  IF ~r2.ok THEN TiResult("NotReady", NoMeta, r2.rpos)
                           ELSE TiResult("Ready", VarLenSized(var.ty, r2.val), r2.rpos)
                  ELSE TiResult("Unimplemented", NoMeta, r1.rpos)
             ELSE TiResult("Protocol", NoMeta, r1.rpos)

\* (mutant) a fixed Int4 is read like an Intn, behind a length-prefix byte
ParseFixedLen_WithPrefix(strm, av, rp, ty) ==
    IF ty = "Int4"
    THEN LET r1 == read_u8(strm, av, rp)
             r == read_i32(strm, av, r1.rpos)
         IN  IF ~r1.ok \/ ~r.ok THEN CdResult("NotReady", NoValue, r.rpos)
             ELSE CdResult("Ready", I32(r.val), r.rpos)
    ELSE CdResult("Unsupported", NoValue, rp)

\* ColumnData::parse, FixedLen arm
ParseFixedLen(strm, av, rp, ty) ==
    IF ty = "Int4"
    THEN LET r == read_i32(strm, av, rp)
         IN  IF ~r.ok THEN CdResult("NotReady", NoValue, r.rpos)
             ELSE CdResult("Ready", I32(r.val), r.rpos)
    ELSE CdResult("Unsupported", NoValue, rp)

\* (mutant) the value is read without its length-prefix byte
ParseVarLenSized_NoPrefix(strm, av, rp, ty, len) ==
    IF ty = "Intn" /\ len = 4
    THEN LET r2 == read_i32(strm, av, rp)
         IN  IF ~r2.ok THEN CdResult("NotReady", NoValue, r2.rpos)
             ELSE CdResult("Ready", I32(r2.val), r2.rpos)
    ELSE CdResult("Unimplemented", NoValue, rp)

\* (mutant) every Intn is decoded as a 4-byte value, whatever its declared length
ParseVarLenSized_AnyLen(strm, av, rp, ty, len) ==
    IF ty = "Intn"
    THEN LET r1 == read_u8(strm, av, rp)
         IN  IF ~r1.ok THEN CdResult("NotReady", NoValue, r1.rpos)
             ELSE IF r1.val # 4 THEN CdResult("AssertFailed", NoValue, r1.rpos)
             ELSE LET r2 == read_i32(strm, av, r1.rpos)
                  IN  IF ~r2.ok THEN CdResult("NotReady", NoValue, r2.rpos)
                      ELSE CdResult("Ready", I32(r2.val), r2.rpos)
    ELSE CdResult("Unimplemented", NoValue, rp)

\* ColumnData::parse, VarLenSized arm
ParseVarLenSized(strm, av, rp, ty, len) ==
    IF ty = "Intn" /\ len = 4
    THEN LET r1 == read_u8(strm, av, rp)
         IN  IF ~r1.ok THEN CdResult("NotReady", NoValue, r1.rpos)
             ELSE IF r1.val # 4 THEN CdResult("AssertFailed", NoValue, r1.rpos)
             ELSE LET r2 == read_i32(strm, av, r1.rpos)
                  IN  IF ~r2.ok THEN CdResult("NotReady", NoValue, r2.rpos)
                      ELSE CdResult("Ready", I32(r2.val), r2.rpos)
    ELSE CdResult("Unimplemented", NoValue, rp)

\* ColumnData::parse
ColumnDataParse(strm, av, rp, m) ==
    IF m.kind = "FixedLen"
    THEN ParseFixedLen(strm, av, rp, m.ty)
    ELSE ParseVarLenSized(strm, av, rp, m.ty, m.len)

(***************************************************************************)
(* Conversion traits.                                                      *)
(***************************************************************************)
ConvOk(v) == [res |-> "Ok", val |-> v]
ConvErr == [res |-> "Conversion", val |-> 0]
NotCalledConv == [res |-> "NotCalled", val |-> 0]

\* (mutant) a value of another variant is read as its integer field
from_column_data_AnyVariant(data) == ConvOk(data.val)

\* impl FromColumnData for i32
from_column_data(data) ==
    IF data.kind = "I32" THEN ConvOk(data.val) ELSE ConvErr

\* impl ToColumnData for i32
to_column_data(v) == I32(v)

(***************************************************************************)
(* Inputs.                                                                 *)
(***************************************************************************)
\* 32-bit values handed to serialize and sent on the wire
I32Vals == {(-2147483647) - 1, -1, 0, 4, 42, 2147483647}

\* characters: 'H', 'i', U+00E9, U+20AC, U+1F600
Alphabet == {72, 105, 233, 8364, 128512}

Strings == UNION {[1..n -> Alphabet] : n \in 0..MaxStrLen}

\* the shortest kind of string the type length assert rejects: 8192
\* characters of 4 UTF-8 bytes each, str::len() = 32768
OversizeStr == [i \in 1..8192 |-> 128512]

Values ==
    {to_column_data(v) : v \in I32Vals}
    \cup {String(s) : s \in Strings \cup {OversizeStr}}
    \cup {BString(<<72>>)}

\* the TypeInfo a caller may hand to ColumnData::parse
Metas ==
    {FixedLen(n) : n \in DOMAIN FixedLenType}
    \cup {VarLenSized(n, l) : n \in DOMAIN VarLenType, l \in {0, 1, 2, 4, 8}}

\* a call that is offered more room than any encoding needs
Unlimited == 10 + 4 * MaxStrLen + MaxCap + 1

Caps == (0..MaxCap) \cup {Unlimited}

\* wire streams sent to the reader: every tag byte, every Intn length byte,
\* every length-prefix byte, and every value behind Intn and behind a fixed Int4
WireStreams ==
    {<<t, 4, 4>> \o LE32(42) : t \in Byte}
    \cup {<<VarLenType.Intn, l, 4>> \o LE32(42) : l \in Byte}
    \cup {<<VarLenType.Intn, 4, p>> \o LE32(42) : p \in Byte}
    \cup {<<VarLenType.Intn, 4, 4>> \o LE32(v) : v \in I32Vals}
    \cup {<<FixedLenType.Int4>> \o LE32(v) : v \in I32Vals}

NotCalledTi == TiResult("NotCalled", NoMeta, 0)
NotCalledCd == CdResult("NotCalled", NoValue, 0)

(***************************************************************************)
(* The state machine.                                                      *)
(***************************************************************************)
InitEncode ==
    /\ mode = "encode"
    /\ value \in Values
    /\ stream = <<>>
    /\ rphase = "idle"

InitDecode ==
    /\ mode = "decode"
    /\ value = NoValue
    /\ stream \in WireStreams
    /\ rphase = "typeinfo"

\* the column's TypeInfo is already known; a row's column bytes are parsed
InitColumn ==
    /\ mode = "decode"
    /\ value = NoValue
    /\ stream = <<4>> \o LE32(42)
    /\ rphase = "column"
    /\ meta \in Metas

Init ==
    /\ \/ InitEncode /\ meta = NoMeta
       \/ InitDecode /\ meta = NoMeta
       \/ InitColumn
    /\ sink = <<>>
    /\ pos = 0
    /\ ret = RetStart
    /\ sinkCall = 0
    /\ posCall = 0
    /\ capCall = 0
    /\ avail = 0
    /\ rpos = 0
    /\ tiRes = NotCalledTi
    /\ cdRes = NotCalledCd
    /\ rposTi = 0
    /\ rposCd = 0
    /\ availTi = 0
    /\ availCd = 0
    /\ conv = NotCalledConv

\* the writer calls serialize(value, sink, pos) against a sink offering cap bytes
Serialize(cap) ==
    /\ mode = "encode"
    /\ ret.kind \in {"Start", "Some"}
    /\ LET r == serialize(value, sink, pos, cap)
       IN  /\ sink' = r.sink
           /\ ret' = r.ret
           /\ pos' = IF r.ret.kind = "Some" THEN r.ret.n ELSE pos
    /\ sinkCall' = Len(sink)
    /\ posCall' = pos
    /\ capCall' = cap
    /\ UNCHANGED <<mode, value, conv>>
    /\ UNCHANGED decVars

\* the completed encoding is sent to the reader, fully available
Loopback ==
    /\ mode = "encode"
    /\ ret.kind = "None"
    /\ rphase = "idle"
    /\ stream' = sink
    /\ avail' = Len(sink)
    /\ rphase' = "typeinfo"
    /\ UNCHANGED <<mode, rpos, meta, tiRes, cdRes, rposTi, rposCd, availTi, availCd, conv>>
    /\ UNCHANGED encVars

\* one more byte of the stream reaches the transport
Arrive ==
    /\ mode = "decode"
    /\ rphase \in {"typeinfo", "column"}
    /\ avail < Len(stream)
    /\ avail' = avail + 1
    /\ UNCHANGED <<mode, stream, rpos, rphase, meta, tiRes, cdRes, rposTi, rposCd,
                   availTi, availCd, conv>>
    /\ UNCHANGED encVars

\* the reader calls TypeInfo::parse; a not-ready call is retried as a whole
CallTypeInfoParse ==
    /\ rphase = "typeinfo"
    /\ LET r == TypeInfoParse(stream, avail, rpos)
       IN  /\ tiRes' = r
           /\ rpos' = r.rpos
           /\ meta' = IF r.res = "Ready" THEN r.ti ELSE meta
           /\ rphase' = CASE r.res = "Ready" -> "column"
                          [] r.res = "NotReady" -> "typeinfo"
                          [] OTHER -> "failed"
    /\ rposTi' = rpos
    /\ availTi' = avail
    /\ UNCHANGED <<mode, stream, avail, cdRes, rposCd, availCd, conv>>
    /\ UNCHANGED encVars

\* the reader calls ColumnData::parse with the column's TypeInfo
CallColumnDataParse ==
    /\ rphase = "column"
    /\ LET r == ColumnDataParse(stream, avail, rpos, meta)
       IN  /\ cdRes' = r
           /\ rpos' = r.rpos
           /\ rphase' = CASE r.res = "Ready" -> "done"
                          [] r.res = "NotReady" -> "column"
                          [] OTHER -> "failed"
    /\ rposCd' = rpos
    /\ availCd' = avail
    /\ UNCHANGED <<mode, stream, avail, meta, tiRes, rposTi, availTi, conv>>
    /\ UNCHANGED encVars

\* the caller extracts an i32 from the value
CallFromColumnData ==
    /\ mode = "encode"
    /\ conv' = from_column_data(value)
    /\ UNCHANGED mode
    /\ UNCHANGED encVars
    /\ UNCHANGED decVars

Next ==
    \/ \E cap \in Caps : Serialize(cap)
    \/ Loopback
    \/ Arrive
    \/ CallTypeInfoParse
    \/ CallColumnDataParse
    \/ CallFromColumnData

Spec == Init /\ [][Next]_vars

(***************************************************************************)
(* Properties.                                                             *)
(***************************************************************************)
\* the full wire encoding of a value, as serialize lays it out
WireEncoding(v) ==
    IF v.kind = "I32"
    THEN I32Bytes(v.val)
    ELSE <<VarLenType.NVarchar>> \o LE16(TypeLength(v.str)) \o Collation
         \o LE16(BodyLength(v.str)) \o Utf16LE(v.str)

Encoding == mode = "encode" /\ value.kind \in {"I32", "String"}
Hi == <<72, 105>>

\* C1: whatever capacities the calls were offered, a serialize sequence that
\* has returned None leaves the sink holding the bytes that one call with
\* unlimited capacity on an empty sink writes (and that call returns None).
C1_FragmentationInvariance ==
    (Encoding /\ ret.kind = "None") =>
        /\ serialize(value, <<>>, 0, Unlimited).ret = RetNone
        /\ sink = serialize(value, <<>>, 0, Unlimited).sink

\* "Hi" completed by a 1-byte call that resumed at offset 13
C1_Witness ==
    /\ mode = "encode" /\ value = String(Hi) /\ ret.kind = "None"
    /\ capCall = 1 /\ posCall = 13 /\ Len(sink) = 14

\* C2: after every call the sink is a prefix of the value's wire encoding:
\* Some(n) means exactly its first n bytes (n cumulative, and the offset the
\* caller threads on), None means all of it; a call only appends.
C2_PrefixInvariant ==
    Encoding =>
        /\ ret.kind = "Some" =>
              /\ pos = ret.n
              /\ ret.n < Len(WireEncoding(value))
              /\ sink = SubSeq(WireEncoding(value), 1, ret.n)
        /\ ret.kind = "None" => sink = WireEncoding(value)
        /\ ret.kind = "Start" => sink = <<>>
        /\ sinkCall <= Len(sink)

\* an I32 call that resumed at offset 3 and stopped at offset 5
C2_Witness ==
    /\ mode = "encode" /\ value = I32(42) /\ ret = RetSome(5)
    /\ posCall = 3 /\ capCall = 2 /\ sink = <<38, 4, 4, 42, 0>>

\* C3: a completed I32 encoding is 7 bytes: 0x26, 4, 4 and the value's 4
\* little-endian two's complement bytes; 42 gives 26 04 04 2A 00 00 00.
C3_IntegerWireEncoding ==
    (mode = "encode" /\ value.kind = "I32" /\ ret.kind = "None") =>
        /\ Len(sink) = 7
        /\ sink[1] = 38 /\ sink[2] = 4 /\ sink[3] = 4
        /\ \A i \in 4..7 : sink[i] \in Byte
        /\ sink[4] + 256 * sink[5] + 65536 * sink[6] + 16777216 * (sink[7] % 128)
              = (IF value.val < 0 THEN (value.val + 2147483647) + 1 ELSE value.val)
        /\ (sink[7] >= 128) = (value.val < 0)
        /\ value.val = 42 => sink = <<38, 4, 4, 42, 0, 0, 0>>
        /\ value.val = -1 => sink = <<38, 4, 4, 255, 255, 255, 255>>
        /\ value.val = (-2147483647) - 1 => sink = <<38, 4, 4, 0, 0, 0, 128>>
        /\ value.val = 2147483647 => sink = <<38, 4, 4, 255, 255, 255, 127>>

\* 42 completed one byte at a time
C3_Witness ==
    /\ mode = "encode" /\ value = I32(42) /\ ret.kind = "None"
    /\ capCall = 1 /\ posCall = 6 /\ sink = <<38, 4, 4, 42, 0, 0, 0>>

\* C4: a completed String encoding is: byte 0 the tag 0xE7, bytes 1-2 the
\* declared length, bytes 3-7 five zero bytes, bytes 8-9 the body length,
\* bytes 10.. the encoded characters, 10 + payload length bytes in all;
\* "Hi" gives 14 bytes with both length fields 04 00.
C4_StringWireLayout ==
    (mode = "encode" /\ value.kind = "String" /\ ret.kind = "None") =>
        /\ Len(sink) = 10 + Len(Utf16LE(value.str))
        /\ sink[1] = 231
        /\ U16FromLE(SubSeq(sink, 2, 3)) = 2 * StrLen(value.str)
        /\ SubSeq(sink, 4, 8) = <<0, 0, 0, 0, 0>>
        /\ U16FromLE(SubSeq(sink, 9, 10)) = 2 * StrLen(value.str)
        /\ SubSeq(sink, 11, Len(sink)) = Utf16LE(value.str)
        /\ value.str = Hi =>
              sink = <<231, 4, 0, 0, 0, 0, 0, 0, 4, 0, 72, 0, 105, 0>>

\* "Hi" completed by a call that resumed inside the body length field
C4_Witness ==
    /\ mode = "encode" /\ value = String(Hi) /\ ret.kind = "None"
    /\ posCall = 9 /\ capCall = Unlimited /\ Len(sink) = 14

\* C5: the completed encoding of I32(v), handed to TypeInfo::parse and then
\* ColumnData::parse, gives VarLenSized(Intn, 4) after 2 bytes and I32(v)
\* after all 7; neither call fails.
C5_IntegerRoundTrip ==
    (mode = "encode" /\ value.kind = "I32" /\ rphase # "idle") =>
        /\ rphase # "failed"
        /\ Len(stream) = 7
        /\ tiRes.res # "NotCalled" =>
              /\ tiRes = TiResult("Ready", VarLenSized("Intn", 4), 2)
              /\ meta = VarLenSized("Intn", 4)
        /\ cdRes.res # "NotCalled" =>
              /\ cdRes = CdResult("Ready", value, 7)
              /\ rpos = 7
              /\ rphase = "done"

\* i32::MIN, encoded one byte per call at the end, decoded
C5_Witness ==
    /\ mode = "encode" /\ value = I32((-2147483647) - 1)
    /\ capCall = 1 /\ rphase = "done" /\ cdRes.res = "Ready" /\ rpos = 7

\* C6 (as claimed): the completed encoding of String(s), decoded, gives a
\* string value equal to s.
C6_StringRoundTrip ==
    (mode = "encode" /\ value.kind = "String" /\ rphase \in {"done", "failed"}) =>
        /\ rphase = "done"
        /\ cdRes.res = "Ready"
        /\ cdRes.val = value

\* C6 (amended): the completed encoding of String(s), decoded, gives no
\* value: TypeInfo::parse consumes the NVarchar tag byte 0xE7 and ends in the
\* unimplemented condition, and ColumnData::parse is never reached.
C6_StringDecodeUnimplemented ==
    (mode = "encode" /\ value.kind = "String" /\ rphase # "idle") =>
        /\ stream[1] = 231
        /\ Len(stream) = 10 + Len(Utf16LE(value.str))
        /\ tiRes.res # "NotCalled" =>
              /\ tiRes = TiResult("Unimplemented", NoMeta, 1)
              /\ rpos = 1
              /\ rphase = "failed"
        /\ meta = NoMeta
        /\ cdRes = NotCalledCd

\* the encoding of "Hi" handed to TypeInfo::parse
C6_Witness ==
    /\ mode = "encode" /\ value = String(Hi) /\ Len(stream) = 14
    /\ tiRes.res = "Unimplemented" /\ rphase = "failed"

\* C7 (as claimed): in a completed String encoding the declared-length field
\* and the body-length field hold the same value, which is twice the
\* character count of s and the number of payload bytes from offset 10 on.
C7_StringLengthFields ==
    (mode = "encode" /\ value.kind = "String" /\ ret.kind = "None") =>
        /\ U16FromLE(SubSeq(sink, 2, 3)) = U16FromLE(SubSeq(sink, 9, 10))
        /\ U16FromLE(SubSeq(sink, 2, 3)) = 2 * Len(value.str)
        /\ U16FromLE(SubSeq(sink, 2, 3)) = Len(sink) - 10

\* the codes of the two tag tables
TagCodes ==
    {FixedLenType[n] : n \in DOMAIN FixedLenType} \cup {VarLenType[n] : n \in DOMAIN VarLenType}

\* C8: a TypeInfo::parse call whose first byte is in neither tag table ends
\* in a Protocol error having consumed that one byte (or is not-ready having
\* consumed nothing, when the byte has not arrived); nothing is consumed
\* after the failure and no TypeInfo is produced.
C8_UnknownTagRejected ==
    (tiRes.res # "NotCalled" /\ rposTi < Len(stream) /\ stream[rposTi + 1] \notin TagCodes) =>
        \/ /\ tiRes.res = "NotReady"
           /\ tiRes.rpos = rposTi
           /\ rpos = rposTi
           /\ rphase = "typeinfo"
        \/ /\ tiRes.res = "Protocol"
           /\ tiRes.ti = NoMeta
           /\ tiRes.rpos = rposTi + 1
           /\ rpos = rposTi + 1
           /\ rphase = "failed"

\* the legacy VarChar code 0x27 rejected while further bytes were available
C8_Witness ==
    /\ mode = "decode" /\ stream[1] = 39 /\ avail >= 3
    /\ tiRes.res = "Protocol" /\ rposTi = 0 /\ rpos = 1

\* C9 (as claimed): ColumnData::parse with VarLenSized(Intn, 4) that reads a
\* length-prefix byte other than 4 returns a Protocol error.
C9_LengthPrefixMismatch ==
    (/\ cdRes.res \notin {"NotCalled", "NotReady"}
     /\ meta = VarLenSized("Intn", 4)
     /\ stream[rposCd + 1] # 4) =>
        /\ cdRes.res = "Protocol"
        /\ cdRes.val = NoValue

\* the results of the two parse calls over the fully available stream
FullTypeInfo == TypeInfoParse(stream, Len(stream), 0)
FullColumnData == ColumnDataParse(stream, Len(stream), FullTypeInfo.rpos, FullTypeInfo.ti)

\* C10 (as claimed): a ColumnData::parse call that signals not-ready has
\* consumed no byte, and the retried call returns what a decode over the
\* fully available stream returns.
C10_DecodeAtomicity ==
    /\ cdRes.res = "NotReady" => cdRes.rpos = rposCd
    /\ (/\ rposTi = 0 /\ tiRes = FullTypeInfo /\ tiRes.res = "Ready"
        /\ cdRes.res \notin {"NotCalled", "NotReady"}) =>
           /\ cdRes.res = FullColumnData.res
           /\ cdRes.val = FullColumnData.val

\* C11 (as claimed): a TypeInfo::parse call that signals not-ready has
\* consumed no byte (not the Intn tag byte either), and the retried call on
\* a descriptor 0x26, L returns VarLenSized(Intn, L) after 2 bytes, as a call
\* that found both bytes available does.
C11_DescriptorParseAtomicity ==
    /\ tiRes.res = "NotReady" => tiRes.rpos = rposTi
    /\ (/\ mode = "decode" /\ stream[1] = 38
        /\ tiRes.res \notin {"NotCalled", "NotReady"}) =>
           /\ tiRes.res = "Ready"
           /\ tiRes.ti = VarLenSized("Intn", stream[2])
           /\ tiRes.rpos = 2

\* the codes of the variable-length tags TypeInfo::parse recognizes but does not handle
UnhandledVarCodes == {VarLenType[n] : n \in DOMAIN VarLenType \ {"Intn"}}

\* C12: the unsupported shapes end in a panic that says so, never in a value
\* or a Protocol error, and write nothing:
\*  - TypeInfo::parse that reads a variable-length tag other than Intn ends
\*    in unimplemented!() having read that byte only;
\*  - ColumnData::parse with a TypeInfo other than FixedLen(Int4) and
\*    VarLenSized(Intn, 4) ends in unimplemented!() (VarLenSized) or in
\*    panic!("unsupported fixed type decoding") (FixedLen), reading nothing;
\*  - serialize on a BString ends in unimplemented!() with the sink untouched.
C12_UnsupportedShapes ==
    /\ (/\ tiRes.res # "NotCalled" /\ availTi > rposTi
        /\ stream[rposTi + 1] \in UnhandledVarCodes) =>
           /\ tiRes = TiResult("Unimplemented", NoMeta, rposTi + 1)
           /\ rphase = "failed"
           /\ cdRes = NotCalledCd
    /\ (/\ cdRes.res # "NotCalled"
        /\ meta \notin {FixedLen("Int4"), VarLenSized("Intn", 4)}) =>
           /\ cdRes.res = (IF meta.kind = "FixedLen" THEN "Unsupported" ELSE "Unimplemented")
           /\ cdRes.val = NoValue
           /\ cdRes.rpos = rposCd /\ rpos = rposCd
           /\ rphase = "failed"
    /\ (mode = "encode" /\ value.kind \notin {"I32", "String"} /\ ret.kind # "Start") =>
           /\ ret.kind = "Unimplemented"
           /\ sink = <<>>
           /\ rphase = "idle"
    /\ sink = <<>> \/ mode = "encode"

\* an Intn column declared 8 bytes long: the descriptor parses, the value does not
C12_Witness ==
    /\ mode = "decode" /\ tiRes.res = "Ready" /\ meta = VarLenSized("Intn", 8)
    /\ cdRes.res = "Unimplemented" /\ rpos = 2 /\ avail >= 3

\* C13: i32::from_column_data returns Ok(v) exactly on ColumnData::I32(v) and
\* a Conversion error on String and BString, the value staying as it was;
\* to_column_data never fails, and from_column_data(to_column_data(v)) = v.
C13_ConversionTraits ==
    /\ (mode = "encode" /\ conv.res # "NotCalled") =>
          /\ value \in Values
          /\ value.kind = "I32" => conv = [res |-> "Ok", val |-> value.val]
          /\ value.kind # "I32" => conv = [res |-> "Conversion", val |-> 0]
          /\ conv.res = "Ok" => value = to_column_data(conv.val)
    /\ \A v \in I32Vals :
          /\ to_column_data(v) = [kind |-> "I32", val |-> v, str |-> <<>>]
          /\ from_column_data(to_column_data(v)) = [res |-> "Ok", val |-> v]

\* an i32 asked of the string "Hi"
C13_Witness ==
    /\ mode = "encode" /\ value = String(Hi) /\ conv.res = "Conversion"

\* C14 (as claimed): one serialize call appends no more bytes than the sink
\* offers for that call; a fresh call against a sink with no room appends
\* nothing, on a String as on an I32.
C14_SinkCapacityRespected ==
    (Encoding /\ ret.kind # "Start") => Len(sink) - sinkCall <= capCall

\* C15: a call that returns Some(n) was made with last_pos <= n and appended
\* exactly n - last_pos bytes; the threaded offset and the sink never shrink
\* from one step to the next, and after None nothing changes any more.
C15_MonotonicOffsets ==
    /\ [](Encoding /\ ret.kind = "Some" =>
             /\ ret.n >= posCall
             /\ ret.n - posCall = Len(sink) - sinkCall
             /\ pos = ret.n)
    /\ [][/\ pos' >= pos
          /\ Len(sink') >= Len(sink)
          /\ SubSeq(sink', 1, Len(sink)) = sink
          /\ ret.kind = "None" => (ret' = ret /\ sink' = sink /\ pos' = pos)]_vars

\* a call that resumed inside the payload of "Hi" and stopped inside it again
C15_Witness ==
    /\ mode = "encode" /\ value = String(Hi) /\ posCall = 11 /\ capCall = 2
    /\ ret = RetSome(13) /\ Len(sink) = 13 /\ sinkCall = 11

\* C16 (as claimed, its per-call clauses): on an accepted value a call that
\* is offered at least one byte returns None or a larger offset, and a call
\* that is offered no room returns the offset it was given.
C16_EncodeProgress ==
    (Encoding /\ ret.kind \in {"Some", "None"}) =>
        /\ capCall >= 1 => (ret.kind = "None" \/ ret.n > posCall)
        /\ capCall = 0 => ret = RetSome(posCall)

\* C17 (as claimed): a fresh call on a String whose doubled length is not
\* under the 16-bit bound fails with nothing appended to the sink, and a
\* String whose doubled length is under the bound is never rejected.
C17_OversizeRejection ==
    (mode = "encode" /\ value.kind = "String" /\ ret.kind # "Start") =>
        /\ (2 * StrLen(value.str) >= U16Max /\ posCall = 0) =>
              /\ ret.kind = "AssertFailed"
              /\ Len(sink) = sinkCall
        /\ 2 * StrLen(value.str) < U16Max => ret.kind \in {"Some", "None"}

\* the codes listed for the two families
ListedFixedCodes == {31, 48, 50, 52, 56, 58, 59, 60, 61, 62, 122, 127}
ListedVarCodes ==
    {36, 38, 104, 106, 108, 109, 110, 111, 40, 41, 42, 43,
     165, 167, 173, 175, 231, 239, 241, 240, 35, 34, 99, 98}

\* C18: a TypeInfo::parse call at the start of a stream that finds the
\* descriptor available returns FixedLen(tag) having consumed 1 byte when the
\* first byte is one of the 12 fixed-length codes, and VarLenSized(Intn, L)
\* having consumed 2 bytes when it is 0x26, L being the second byte as it is.
C18_DescriptorParseConsumption ==
    (tiRes.res # "NotCalled" /\ rposTi = 0) =>
        /\ (availTi >= 1 /\ stream[1] \in ListedFixedCodes) =>
              /\ tiRes.res = "Ready"
              /\ tiRes.ti.kind = "FixedLen"
              /\ FixedLenType[tiRes.ti.ty] = stream[1]
              /\ tiRes.rpos = 1
              /\ stream[1] = 56 => tiRes.ti = FixedLen("Int4")
        /\ (availTi >= 2 /\ stream[1] = 38) =>
              /\ tiRes = [res |-> "Ready",
                          ti |-> [kind |-> "VarLenSized", ty |-> "Intn", len |-> stream[2]],
                          rpos |-> 2]
              /\ meta.len = stream[2]

\* an Intn descriptor whose length byte is 255
C18_Witness ==
    /\ mode = "decode" /\ stream[1] = 38 /\ stream[2] = 255
    /\ tiRes.res = "Ready" /\ meta = VarLenSized("Intn", 255) /\ tiRes.rpos = 2

\* C19: on a stream 0x38, b0, b1, b2, b3 TypeInfo::parse gives FixedLen(Int4)
\* after 1 byte and ColumnData::parse then gives I32(v) after 4 more, v being
\* the little-endian two's complement value of b0..b3, with no length-prefix
\* byte read; 38 2A 00 00 00 gives 42.
C19_FixedInt4Decode ==
    (/\ mode = "decode" /\ stream[1] = 56
     /\ tiRes.res # "NotCalled" /\ rposTi = 0 /\ availTi >= 1) =>
        /\ tiRes = TiResult("Ready", FixedLen("Int4"), 1)
        /\ (cdRes.res # "NotCalled" /\ availCd >= 5) =>
              /\ rposCd = 1
              /\ cdRes.res = "Ready"
              /\ cdRes.val.kind = "I32"
              /\ LE32(cdRes.val.val) = SubSeq(stream, 2, 5)
              /\ cdRes.rpos = 5 /\ rpos = 5
              /\ rphase = "done"
              /\ SubSeq(stream, 2, 5) = <<42, 0, 0, 0>> => cdRes.val.val = 42
              /\ SubSeq(stream, 2, 5) = <<255, 255, 255, 255>> => cdRes.val.val = -1
              /\ SubSeq(stream, 2, 5) = <<0, 0, 0, 128>> => cdRes.val.val = (-2147483647) - 1

\* 38 2A 00 00 00 decoded
C19_Witness ==
    /\ mode = "decode" /\ stream = <<56, 42, 0, 0, 0>>
    /\ meta = FixedLen("Int4") /\ cdRes = CdResult("Ready", I32(42), 5) /\ rpos = 5

\* C20: the two tag tables are exact and disjoint: from_u8 of each family is
\* Some exactly on the listed codes, no byte is a code of both families, no
\* two tags of a family share a code, from_u8(tag as u8) = tag; and the byte
\* a TypeInfo::parse call has read matched at most the table its result is
\* from, so looking up the fixed table first decides nothing.
C20_TagTablesExact ==
    /\ \A b \in Byte :
          /\ FixedLenType_from_u8(b).some <=> b \in ListedFixedCodes
          /\ VarLenType_from_u8(b).some <=> b \in ListedVarCodes
          /\ ~(FixedLenType_from_u8(b).some /\ VarLenType_from_u8(b).some)
    /\ \A n \in DOMAIN FixedLenType :
          FixedLenType_from_u8(FixedLenType[n]) = [some |-> TRUE, ty |-> n]
    /\ \A n \in DOMAIN VarLenType :
          VarLenType_from_u8(VarLenType[n]) = [some |-> TRUE, ty |-> n]
    /\ Cardinality(DOMAIN FixedLenType) = 12 /\ Cardinality(ListedFixedCodes) = 12
    /\ Cardinality(DOMAIN VarLenType) = 24 /\ Cardinality(ListedVarCodes) = 24
    /\ (tiRes.res # "NotCalled" /\ availTi > rposTi) =>
          LET b == stream[rposTi + 1]
          IN  /\ tiRes.ti.kind = "FixedLen" =>
                    (FixedLenType[tiRes.ti.ty] = b /\ ~VarLenType_from_u8(b).some)
              /\ (tiRes.ti.kind = "VarLenSized" \/ tiRes.res = "Unimplemented") =>
                    (VarLenType_from_u8(b).some /\ ~FixedLenType_from_u8(b).some)
              /\ VarLenType_from_u8(b).some =>
                    (tiRes.ti.kind # "FixedLen" /\ tiRes.res # "Protocol")
              /\ tiRes.res = "Protocol" <=>
                    (~FixedLenType_from_u8(b).some /\ ~VarLenType_from_u8(b).some)

\* the fixed-length Money code 0x3C looked up, next to the variable-length Money 0x6E
C20_Witness ==
    /\ mode = "decode" /\ stream[1] = 60 /\ rposTi = 0
    /\ tiRes = TiResult("Ready", FixedLen("Money"), 1)

====
